---------------------------- MODULE Spec2Model ----------------------------
(***************************************************************************)
(* A model of DQNAgent (src/dqn_agent.py): the training driver train(),    *)
(* the episode loop train_episode(), the epsilon-greedy action selection,  *)
(* the minibatch step with its Bellman backup, and the target-network      *)
(* synchronisation.                                                        *)
(*                                                                         *)
(* The collaborators whose code is not in src/ (FrameBuffer, ReplayMemory, *)
(* utils.decay, utils.one_hot, the network's forward evaluation) are       *)
(* modelled from their contracts in spec.md.                               *)
(*                                                                         *)
(* Numbers.  Rewards and q-values are integers.  reward_discount is a      *)
(* number of tenths (9 is 0.9), and an expected q-value is kept in tenths  *)
(* as well.  A probability is a number of steps of 1/ProbSteps, and a      *)
(* draw of random.random(), which lies in [0, 1), is one of                *)
(* 0 .. ProbSteps - 1.                                                     *)
(***************************************************************************)
EXTENDS Integers, Sequences, FiniteSets, TLC

VARIABLES
  config,             \* the options of self.config, fixed at construction
  env_id,             \* self.env.spec.id
  pc,                 \* where train() / train_episode() stands
  episode,            \* the loop variable of train()
  total_steps,        \* self.total_steps
  random_action_prob, \* self.random_action_prob
  online_params,      \* the network's parameters, as a version number
  target_params,      \* self.target_params
  frame_buffer,       \* the window of self.frame_buffer
  memory,             \* the transitions of self.replay_memory, oldest first
  state,              \* train_episode's local state
  action,             \* train_episode's local action
  observation,        \* train_episode's local observation
  reward,             \* train_episode's local reward
  done,               \* train_episode's local done
  steps,              \* train_episode's local steps
  total_reward,       \* train_episode's local total_reward
  minibatch,          \* _train_minibatch's <<non_terminal, terminal>>
  feed,               \* the feed_dict handed to train_op
  dice,               \* the roll of the _pick_action call just made
  stop_signal,        \* the supervisor has been asked to stop
  stats,              \* the episode handed to self.stats.log_episode: reward and steps
  raw_reward,         \* history: the reward env.step returned on this step
  log,                \* history: the operations of the current episode
  calls,              \* history: how often each operation has run
  start_steps,        \* history: total_steps when the episode began
  synced              \* history: the target was synchronised after the episode

vars == <<config, stats, stop_signal, env_id, pc, episode, total_steps, random_action_prob,
          online_params, target_params, frame_buffer, memory, state, action,
          observation, reward, done, steps, total_reward, minibatch, feed,
          dice, raw_reward, log, calls, start_steps, synced>>

----------------------------------------------------------------------------
(* Bounds of the model.                                                    *)

NumEpisodes == 2
MaxSteps == 2
MaxCapacity == 2
MaxBatch == 2
MaxFreq == 2
ProbSteps == 2

\* The largest frames_per_state checked.
MaxFrames == 2

----------------------------------------------------------------------------
(* Helpers.                                                                *)

Max(a, b) == IF a >= b THEN a ELSE b

Last(s) == s[Len(s)]

RECURSIVE SumSeq(_)
SumSeq(s) == IF s = <<>> THEN 0 ELSE Head(s) + SumSeq(Tail(s))

RECURSIVE Count(_, _)
Count(s, x) ==
  IF s = <<>> THEN 0
  ELSE (IF Head(s) = x THEN 1 ELSE 0) + Count(Tail(s), x)

RECURSIVE SelectSeqBy(_, _)
SelectSeqBy(s, wantDone) ==
  IF s = <<>> THEN <<>>
  ELSE IF Head(s).done = wantDone
       THEN <<Head(s)>> \o SelectSeqBy(Tail(s), wantDone)
       ELSE SelectSeqBy(Tail(s), wantDone)

----------------------------------------------------------------------------
(* The class tables and the environment.                                   *)

RESIZE_STATE_FRAMES == {"Pong-v0"}

FAILURE_PENALTY == [id \in {"CartPole-v0"} |-> -100]

EnvIds == {"CartPole-v0", "Pong-v0"}

\* env.action_space: the actions 0 .. n - 1 of an environment with n = 2.
Actions == {0, 1}

\* env.action_space.n
NumActions == Cardinality(Actions)

\* The rewards env.step may return.
Rewards == {0, 1}

\* The values random.random() may return, in steps of 1/ProbSteps.
Draws == 0 .. (ProbSteps - 1)

\* An observation is named by the episode and the step that produced it.
reset_observation(ep) == <<ep, 0>>

step_observation(ep, k) == <<ep, k>>

----------------------------------------------------------------------------
(* Collaborators.                                                          *)

\* utils.resize_image: the frame, marked as resized.
resize_image(frame) == <<frame[1], frame[2], "resized">>

\* utils.decay: p_new = max(min_val, p - decay_rate).
decay(val, min_val, decay_rate) == Max(min_val, val - decay_rate)

\* utils.one_hot: a vector of n entries, 1 at index a.
one_hot(a, n) == [i \in 0 .. (n - 1) |-> IF i = a THEN 1 ELSE 0]

\* FrameBuffer.append: push into the rolling window, dropping the oldest frame
\* when the window is full.
FrameBuffer_append(buf, frame, frames_per_state) ==
  LET b == Append(buf, frame)
  IN  IF Len(b) > frames_per_state THEN Tail(b) ELSE b

\* FrameBuffer.get_state: the current window.
FrameBuffer_get_state(buf) == buf

\* A slip: at capacity the newest transition is evicted, not the oldest.
ReplayMemory_add_evicts_newest(mem, t, capacity) ==
  IF Len(mem) >= capacity
  THEN Append(SubSeq(mem, 1, Len(mem) - 1), t)
  ELSE Append(mem, t)

\* ReplayMemory.add: append, evicting the oldest transition at capacity.
ReplayMemory_add(mem, t, capacity) ==
  IF Len(mem) >= capacity THEN Append(Tail(mem), t) ELSE Append(mem, t)

\* ReplayMemory.size
ReplayMemory_size(mem) == Len(mem)

\* The draws of n distinct positions of the store, in the order drawn.
SampleIndices(mem, n) ==
  {ix \in [1 .. n -> 1 .. Len(mem)] :
     \A i, j \in 1 .. n : i # j => ix[i] # ix[j]}

\* ReplayMemory.get_minibatch: for one draw, the sample split into its
\* non-terminal and its terminal transitions.
ReplayMemory_get_minibatch(mem, ix) ==
  LET sample == [i \in 1 .. Len(ix) |-> mem[ix[i]]]
  IN  <<SelectSeqBy(sample, FALSE), SelectSeqBy(sample, TRUE)>>

\* ReplayMemory.get_next_states: the next_state fields, in order.
ReplayMemory_get_next_states(batch) ==
  [i \in 1 .. Len(batch) |-> batch[i].next_state]

\* The network's q_output for one state and one action under the parameters
\* `params`: some fixed function of the three.
FrameCode(frame) == 2 * frame[1] + frame[2] + 1

q_output(params, s, a) ==
  (params + (a + 1) * SumSeq([i \in 1 .. Len(s) |-> FrameCode(s[i])])) % 3

----------------------------------------------------------------------------
(* DQNAgent: the pure parts.                                               *)

\* _get_frame_resizer: the preprocessor of the frame buffer.
_get_frame_resizer(id, frame) ==
  IF id \notin RESIZE_STATE_FRAMES THEN frame ELSE resize_image(frame)

\* _update_target_network: the snapshot taken of the network's parameters.
_update_target_network(params) == params

\* self.target_params before any _update_target_network has run: the
\* attribute does not exist.
Undefined == 0 - 1

\* A slip: __init__ without its call of _update_target_network.
construct_target_params_unset(params) == Undefined

\* The last statement of __init__: self._update_target_network().
construct_target_params(params) == _update_target_network(params)

\* A slip: min_val and decay_rate handed to utils.decay in each other's place.
_decay_random_action_prob_swapped(p, cfg) ==
  decay(p, cfg.random_action_prob_decay, cfg.min_random_action_prob)

\* _decay_random_action_prob: the new value of random_action_prob.
_decay_random_action_prob(p, cfg) ==
  decay(p, cfg.min_random_action_prob, cfg.random_action_prob_decay)

\* A slip: the draw compared with the probability as it was before the decay.
_roll_random_action_dice_stale(p, cfg, r) ==
  [prob |-> decay(p, cfg.min_random_action_prob, cfg.random_action_prob_decay),
   roll |-> r, random |-> r < p]

\* _roll_random_action_dice: decay, then compare the draw r with the decayed
\* probability.  Gives the new probability and the outcome of the roll.
_roll_random_action_dice(p, cfg, r) ==
  LET q == _decay_random_action_prob(p, cfg)
  IN  [prob |-> q, roll |-> r, random |-> r < q]

\* _predict_q_values: one row of q-values per state, under the target
\* snapshot or under the network's own parameters.
_predict_q_values(states, use_target_network) ==
  LET params == IF use_target_network THEN target_params ELSE online_params
  IN  [i \in 1 .. Len(states) |-> [a \in Actions |-> q_output(params, states[i], a)]]

\* numpy's max over the actions of one row.
RowMax(row) == CHOOSE v \in {row[a] : a \in Actions} : \A a \in Actions : row[a] <= v

\* numpy's argmax: the first index that holds the maximum.
ArgMax(row) ==
  CHOOSE a \in Actions : row[a] = RowMax(row) /\ \A b \in Actions : row[b] = RowMax(row) => a <= b

\* A slip: the greedy action read from the target snapshot.
_pick_action_target(s, random, sampled) ==
  IF random THEN sampled ELSE ArgMax(_predict_q_values(<<s>>, TRUE)[1])

\* _pick_action, after the roll: a sampled action, or the greedy one.
_pick_action(s, random, sampled) ==
  IF random THEN sampled ELSE ArgMax(_predict_q_values(<<s>>, FALSE)[1])

\* A slip: the terminal partition chained first.
chain_terminal_first(non_terminal_minibatch, terminal_minibatch) ==
  terminal_minibatch \o non_terminal_minibatch

\* itertools.chain of the two partitions.
chain(non_terminal_minibatch, terminal_minibatch) ==
  non_terminal_minibatch \o terminal_minibatch

\* zip_longest's fillvalue.
fillvalue == 0

\* A slip: the targets padded with the last of them, as a plain zip over a
\* repeated list would.
zip_longest_target_repeat(target_q_values, i) ==
  IF i <= Len(target_q_values) THEN target_q_values[i]
  ELSE IF Len(target_q_values) > 0 THEN target_q_values[Len(target_q_values)]
  ELSE 0

\* The target_q that zip_longest pairs with item i of the minibatch.
zip_longest_target(target_q_values, i) ==
  IF i <= Len(target_q_values) THEN target_q_values[i] ELSE fillvalue

\* reward + reward_discount * target_q, in tenths.
expected_q_value(r, discount, target_q) == 10 * r + discount * target_q

\* A slip: a plain zip, which stops at the shorter of the minibatch and the
\* targets.
_get_minibatch_feed_dict_zip(target_q_values, non_terminal_minibatch, terminal_minibatch, cfg) ==
  LET mb == non_terminal_minibatch \o terminal_minibatch
      n  == IF Len(mb) < Len(target_q_values) THEN Len(mb) ELSE Len(target_q_values)
  IN  [states     |-> [i \in 1 .. n |-> mb[i].state],
       expected_q |-> [i \in 1 .. n |->
                         expected_q_value(mb[i].reward, cfg.reward_discount,
                                          target_q_values[i])],
       actions    |-> [i \in 1 .. n |-> one_hot(mb[i].action, NumActions)]]

\* _get_minibatch_feed_dict
_get_minibatch_feed_dict(target_q_values, non_terminal_minibatch, terminal_minibatch, cfg) ==
  LET mb == chain(non_terminal_minibatch, terminal_minibatch)
      n  == Max(Len(mb), Len(target_q_values))
  IN  [states     |-> [i \in 1 .. n |-> mb[i].state],
       expected_q |-> [i \in 1 .. n |->
                         expected_q_value(mb[i].reward, cfg.reward_discount,
                                          zip_longest_target(target_q_values, i))],
       actions    |-> [i \in 1 .. n |-> one_hot(mb[i].action, NumActions)]]

\* A slip: the penalty applied whether or not the step was done.
punish_always(id, r, d) ==
  IF id \in DOMAIN FAILURE_PENALTY THEN FAILURE_PENALTY[id] ELSE r

\* The failure penalty of line 86: FAILURE_PENALTY.get(id, reward) when done.
punish(id, r, d) ==
  IF d THEN (IF id \in DOMAIN FAILURE_PENALTY THEN FAILURE_PENALTY[id] ELSE r) ELSE r

\* A slip: the loop also ends when the supervisor has been asked to stop.
loop_condition_stoppable(d, n, max_steps) == ~d /\ n < max_steps /\ ~stop_signal

\* A slip: the loop goes on after a done.
loop_condition_ignores_done(d, n, max_steps) == n < max_steps

\* The loop condition of train_episode.
loop_condition(d, n, max_steps) == ~d /\ n < max_steps

\* The condition of train() for a target update.
needs_target_update(n, freq) == n % freq = 0

\* A slip: the guard off by one.
skips_training_inclusive(size, minibatch_size) == size <= minibatch_size

\* The guard of _train_minibatch: too few transitions, no training.
skips_training(size, minibatch_size) == size < minibatch_size

----------------------------------------------------------------------------
(* Configurations.                                                         *)

\* The values of reward_discount, in tenths.
Discounts == {0, 9, 10}

\* The values of min_random_action_prob and of random_action_prob_decay; the
\* agent validates neither, so a negative one is a configuration too.
ScheduleValues == -1 .. ProbSteps

\* A configuration.  num_episodes, max_steps and supervisor (is one given?)
\* are the arguments of train().
Config(mb, cap, freq, disc, init, min, dec, max_steps) ==
  [frames_per_state         |-> 1,
   minibatch_size           |-> mb,
   capacity                 |-> cap,
   target_update_freq       |-> freq,
   reward_discount          |-> disc,
   init_random_action_prob  |-> init,
   min_random_action_prob   |-> min,
   random_action_prob_decay |-> dec,
   num_episodes             |-> NumEpisodes,
   max_steps                |-> max_steps,
   supervisor               |-> FALSE]

\* The configurations checked, each with the environment's id.  Every option
\* takes all its values, one group of options at a time: the exploration
\* schedule; the store and the minibatch; the discount; the step cap and the
\* cadence of the target updates and the supervisor; the frames per state.
ExploreSetups ==
  {<<Config(1, 1, 1, 9, i, m, d, MaxSteps), "CartPole-v0">> :
     i \in 0 .. ProbSteps, m \in ScheduleValues, d \in ScheduleValues}

StoreSetups ==
  {<<Config(mb, cap, 1, 9, ProbSteps, 0, 1, MaxSteps), e>> :
     mb \in 1 .. MaxBatch, cap \in 1 .. MaxCapacity, e \in EnvIds}

DiscountSetups ==
  {<<Config(MaxBatch, MaxCapacity, 1, d, ProbSteps, 0, 1, MaxSteps), e>> :
     d \in Discounts, e \in EnvIds}

ControlSetups ==
  {<<[Config(1, 1, f, 9, ProbSteps, 0, 1, ms) EXCEPT !.supervisor = sv], e>> :
     f \in 1 .. MaxFreq, ms \in 0 .. MaxSteps, sv \in BOOLEAN, e \in EnvIds}

FrameSetups ==
  {<<[Config(1, 1, 1, 9, ProbSteps, 0, 1, MaxSteps) EXCEPT !.frames_per_state = n], e>> :
     n \in 1 .. MaxFrames, e \in EnvIds}

Setups ==
  ExploreSetups \cup StoreSetups \cup DiscountSetups \cup ControlSetups
    \cup FrameSetups

NoFeed == [states |-> <<>>, expected_q |-> <<>>, actions |-> <<>>]

NoBatch == <<<<>>, <<>>>>

NoCalls == [pick |-> 0, env_step |-> 0, add |-> 0, train_op |-> 0, sync |-> 0,
            should_stop |-> 0, env_error |-> 0, train_error |-> 0]

\* Nothing is being logged.
NoStats == <<>>

NoDice == [prob |-> 0, roll |-> 0, random |-> FALSE]

----------------------------------------------------------------------------
(* The state after DQNAgent.__init__ and at the call of train().           *)

Init ==
  /\ \E su \in Setups : config = su[1] /\ env_id = su[2]
  /\ pc = "train"
  /\ stop_signal = FALSE
  /\ stats = NoStats
  /\ episode = 0
  /\ total_steps = 0
  /\ random_action_prob = config.init_random_action_prob
  /\ online_params = 0
  /\ target_params = construct_target_params(0)
  /\ frame_buffer = <<>>
  /\ memory = <<>>
  /\ state = <<>>
  /\ action = 0
  /\ observation = <<0, 0>>
  /\ reward = 0
  /\ done = FALSE
  /\ steps = 0
  /\ total_reward = 0
  /\ minibatch = NoBatch
  /\ feed = NoFeed
  /\ dice = NoDice
  /\ raw_reward = 0
  /\ log = <<>>
  /\ calls = [NoCalls EXCEPT !.sync = 1]
  /\ start_steps = 0
  /\ synced = FALSE

----------------------------------------------------------------------------
(* train(): the loop over the episodes.                                    *)

\* The places where an exception has left train(): the assertion of
\* _get_minibatch_feed_dict, env.step, the run of train_op.
Failures == {"failed", "env_step_failed", "train_op_failed"}

\* for episode in range(num_episodes): the next episode begins, or train()
\* returns.
train_for ==
  /\ pc = "train"
  /\ IF episode < config.num_episodes
     THEN /\ pc' = "reset"
          /\ start_steps' = total_steps
          /\ synced' = FALSE
          /\ log' = <<>>
          /\ stats' = NoStats
     ELSE /\ pc' = "finished"
          /\ UNCHANGED <<start_steps, synced, log, stats>>
  /\ UNCHANGED <<config, stop_signal, env_id, episode, total_steps, random_action_prob,
                 online_params, target_params, frame_buffer, memory, state,
                 action, observation, reward, done, steps, total_reward,
                 minibatch, feed, dice, raw_reward, calls>>

\* train_episode, up to its loop: reset the environment, seed the frame
\* buffer, take the first state.
train_episode_reset ==
  /\ pc = "reset"
  /\ LET obs == reset_observation(episode)
         buf == FrameBuffer_append(frame_buffer, _get_frame_resizer(env_id, obs),
                                   config.frames_per_state)
     IN  /\ observation' = obs
         /\ frame_buffer' = buf
         /\ state' = FrameBuffer_get_state(buf)
  /\ total_reward' = 0
  /\ steps' = 0
  /\ done' = FALSE
  /\ pc' = "loop"
  /\ UNCHANGED <<config, stats, stop_signal, env_id, episode, total_steps, random_action_prob,
                 online_params, target_params, memory, action, reward,
                 minibatch, feed, dice, raw_reward, log, calls, start_steps,
                 synced>>

\* while not done and (steps < max_steps)
train_episode_while ==
  /\ pc = "loop"
  /\ pc' = IF loop_condition(done, steps, config.max_steps) THEN "pick" ELSE "return"
  /\ UNCHANGED <<config, stats, stop_signal, env_id, episode, total_steps, random_action_prob,
                 online_params, target_params, frame_buffer, memory, state,
                 action, observation, reward, done, steps, total_reward,
                 minibatch, feed, dice, raw_reward, log, calls, start_steps,
                 synced>>

\* action = self._pick_action(state)
train_episode_pick ==
  /\ pc = "pick"
  /\ \E r \in Draws, sampled \in Actions :
       LET d == _roll_random_action_dice(random_action_prob, config, r)
       IN  /\ random_action_prob' = d.prob
           /\ dice' = d
           /\ action' = _pick_action(state, d.random, sampled)
  /\ log' = Append(log, "select")
  /\ calls' = [calls EXCEPT !.pick = @ + 1]
  /\ pc' = "env_step"
  /\ UNCHANGED <<config, stats, stop_signal, env_id, episode, total_steps, online_params,
                 target_params, frame_buffer, memory, state, observation,
                 reward, done, steps, total_reward, minibatch, feed,
                 raw_reward, start_steps, synced>>

\* observation, reward, done, _ = self.env.step(action); total_reward += reward
train_episode_env_step ==
  /\ pc = "env_step"
  /\ \E r \in Rewards, d \in BOOLEAN :
       /\ reward' = r
       /\ raw_reward' = r
       /\ done' = d
       /\ total_reward' = total_reward + r
  /\ observation' = step_observation(episode, steps + 1)
  /\ dice' = NoDice
  /\ log' = Append(log, "env_step")
  /\ calls' = [calls EXCEPT !.env_step = @ + 1]
  /\ pc' = "store"
  /\ UNCHANGED <<config, stats, stop_signal, env_id, episode, total_steps, random_action_prob,
                 online_params, target_params, frame_buffer, memory, state,
                 action, steps, minibatch, feed, start_steps, synced>>

\* A slip: the step ends without state = next_state.
train_episode_store_keeps_state ==
  /\ pc = "store"
  /\ LET r   == punish(env_id, reward, done)
         buf == FrameBuffer_append(frame_buffer,
                                   _get_frame_resizer(env_id, observation),
                                   config.frames_per_state)
         next_state == FrameBuffer_get_state(buf)
         t   == [state |-> state, action |-> action, reward |-> r,
                 next_state |-> next_state, done |-> done]
     IN  /\ reward' = r
         /\ frame_buffer' = buf
         /\ memory' = ReplayMemory_add(memory, t, config.capacity)
         /\ state' = state
  /\ log' = Append(log, "store")
  /\ calls' = [calls EXCEPT !.add = @ + 1]
  /\ pc' = "minibatch"
  /\ UNCHANGED <<config, stats, stop_signal, env_id, episode, total_steps, random_action_prob,
                 online_params, target_params, action, observation, done,
                 steps, total_reward, minibatch, feed, dice, raw_reward,
                 start_steps, synced>>

\* A slip: the episode's total counts the reward as stored, penalty included.
train_episode_store_totals_stored ==
  /\ pc = "store"
  /\ LET r   == punish(env_id, reward, done)
         buf == FrameBuffer_append(frame_buffer,
                                   _get_frame_resizer(env_id, observation),
                                   config.frames_per_state)
         next_state == FrameBuffer_get_state(buf)
         t   == [state |-> state, action |-> action, reward |-> r,
                 next_state |-> next_state, done |-> done]
     IN  /\ reward' = r
         /\ frame_buffer' = buf
         /\ memory' = ReplayMemory_add(memory, t, config.capacity)
         /\ state' = next_state
         /\ total_reward' = total_reward - reward + r
  /\ log' = Append(log, "store")
  /\ calls' = [calls EXCEPT !.add = @ + 1]
  /\ pc' = "minibatch"
  /\ UNCHANGED <<config, stats, stop_signal, env_id, episode, total_steps, random_action_prob,
                 online_params, target_params, action, observation, done,
                 steps, minibatch, feed, dice, raw_reward,
                 start_steps, synced>>

\* The failure penalty, the frame buffer, the replay memory and the new
\* current state.
train_episode_store ==
  /\ pc = "store"
  /\ LET r   == punish(env_id, reward, done)
         buf == FrameBuffer_append(frame_buffer,
                                   _get_frame_resizer(env_id, observation),
                                   config.frames_per_state)
         next_state == FrameBuffer_get_state(buf)
         t   == [state |-> state, action |-> action, reward |-> r,
                 next_state |-> next_state, done |-> done]
     IN  /\ reward' = r
         /\ frame_buffer' = buf
         /\ memory' = ReplayMemory_add(memory, t, config.capacity)
         /\ state' = next_state
  /\ log' = Append(log, "store")
  /\ calls' = [calls EXCEPT !.add = @ + 1]
  /\ pc' = "minibatch"
  /\ UNCHANGED <<config, stats, stop_signal, env_id, episode, total_steps, random_action_prob,
                 online_params, target_params, action, observation, done,
                 steps, total_reward, minibatch, feed, dice, raw_reward,
                 start_steps, synced>>

\* _train_minibatch up to the call of train_op: return at once when the store
\* holds too few transitions; else sample, evaluate the target network on the
\* next states and build the feed.
_train_minibatch ==
  /\ pc = "minibatch"
  /\ IF skips_training(ReplayMemory_size(memory), config.minibatch_size)
     THEN /\ pc' = "increment"
          /\ UNCHANGED <<minibatch, feed, log>>
     ELSE \E ix \in SampleIndices(memory, config.minibatch_size) :
            LET mb == ReplayMemory_get_minibatch(memory, ix)
                next_states == ReplayMemory_get_next_states(mb[1])
                q_values == _predict_q_values(next_states, TRUE)
                max_q_values == [i \in 1 .. Len(q_values) |-> RowMax(q_values[i])]
            IN  /\ minibatch' = mb
                /\ log' = log \o <<"sample", "target_eval">>
                /\ IF Len(max_q_values) = Len(mb[1])
                   THEN /\ feed' = _get_minibatch_feed_dict(max_q_values, mb[1],
                                                            mb[2], config)
                        /\ pc' = "train_op"
                   ELSE /\ feed' = feed
                        /\ pc' = "failed"
  /\ UNCHANGED <<config, stats, stop_signal, env_id, episode, total_steps, random_action_prob,
                 online_params, target_params, frame_buffer, memory, state,
                 action, observation, reward, done, steps, total_reward, dice,
                 raw_reward, calls, start_steps, synced>>

\* A slip: the target snapshot is the network's own parameters, not a copy of
\* them, so that a gradient update moves it too.
train_op_aliased ==
  /\ pc = "train_op"
  /\ online_params' = online_params + 1
  /\ target_params' = online_params'
  /\ feed' = NoFeed
  /\ minibatch' = NoBatch
  /\ log' = Append(log, "train_op")
  /\ calls' = [calls EXCEPT !.train_op = @ + 1]
  /\ pc' = "increment"
  /\ UNCHANGED <<config, stats, stop_signal, env_id, episode, total_steps, random_action_prob,
                 frame_buffer, memory, state, action, observation, reward,
                 done, steps, total_reward, dice, raw_reward, start_steps,
                 synced>>

\* A slip: the gradient update is issued and not waited for.
train_op_deferred ==
  /\ pc = "train_op"
  /\ log' = Append(log, "train_op")
  /\ calls' = [calls EXCEPT !.train_op = @ + 1]
  /\ pc' = "increment"
  /\ UNCHANGED <<config, stats, stop_signal, env_id, episode, total_steps, random_action_prob,
                 online_params, target_params, frame_buffer, memory, state,
                 action, observation, reward, done, steps, total_reward,
                 minibatch, feed, dice, raw_reward, start_steps, synced>>

\* self.session.run(self.network.train_op, feed_dict): one gradient update of
\* the network's parameters.
train_op ==
  /\ pc = "train_op"
  /\ online_params' = online_params + 1
  /\ feed' = NoFeed
  /\ minibatch' = NoBatch
  /\ log' = Append(log, "train_op")
  /\ calls' = [calls EXCEPT !.train_op = @ + 1]
  /\ pc' = "increment"
  /\ UNCHANGED <<config, stats, stop_signal, env_id, episode, total_steps, random_action_prob,
                 target_params, frame_buffer, memory, state, action,
                 observation, reward, done, steps, total_reward, dice,
                 raw_reward, start_steps, synced>>

\* A slip: the target network synchronised inside the episode, at each step
\* that brings total_steps to a multiple of target_update_freq.
train_episode_increment_syncs ==
  /\ pc = "increment"
  /\ steps' = steps + 1
  /\ total_steps' = total_steps + 1
  /\ target_params' = IF needs_target_update(total_steps + 1, config.target_update_freq)
                      THEN _update_target_network(online_params)
                      ELSE target_params
  /\ log' = Append(log, "increment")
  /\ pc' = "loop"
  /\ UNCHANGED <<config, stats, stop_signal, env_id, episode, random_action_prob, online_params,
                 frame_buffer, memory, state, action,
                 observation, reward, done, total_reward, minibatch, feed,
                 dice, raw_reward, calls, start_steps, synced>>

\* steps += 1; self.total_steps += 1
train_episode_increment ==
  /\ pc = "increment"
  /\ steps' = steps + 1
  /\ total_steps' = total_steps + 1
  /\ log' = Append(log, "increment")
  /\ pc' = "loop"
  /\ UNCHANGED <<config, stats, stop_signal, env_id, episode, random_action_prob, online_params,
                 target_params, frame_buffer, memory, state, action,
                 observation, reward, done, total_reward, minibatch, feed,
                 dice, raw_reward, calls, start_steps, synced>>

\* return total_reward, steps; train() logs the episode.
train_episode_return ==
  /\ pc = "return"
  /\ stats' = <<total_reward, steps>>
  /\ pc' = "target_update"
  /\ UNCHANGED <<config, stop_signal, env_id, episode, total_steps, random_action_prob,
                 online_params, target_params, frame_buffer, memory, state,
                 action, observation, reward, done, steps, total_reward,
                 minibatch, feed, dice, raw_reward, log, calls, start_steps,
                 synced>>

\* if self.total_steps % self.config.target_update_freq == 0:
\*   self._update_target_network()
train_target_update ==
  /\ pc = "target_update"
  /\ IF needs_target_update(total_steps, config.target_update_freq)
     THEN /\ target_params' = _update_target_network(online_params)
          /\ calls' = [calls EXCEPT !.sync = @ + 1]
          /\ synced' = TRUE
     ELSE UNCHANGED <<target_params, calls, synced>>
  /\ pc' = "stop_check"
  /\ UNCHANGED <<config, stats, stop_signal, env_id, episode, total_steps, random_action_prob,
                 online_params, frame_buffer, memory, state, action,
                 observation, reward, done, steps, total_reward, minibatch,
                 feed, dice, raw_reward, log, start_steps>>

\* The condition of the break: a supervisor is given and says stop.
stops(supervisor, should_stop) == supervisor /\ should_stop

\* if supervisor and supervisor.should_stop(): break
train_stop_check ==
  /\ pc = "stop_check"
  /\ IF stops(config.supervisor, stop_signal)
     THEN /\ pc' = "finished"
          /\ UNCHANGED episode
     ELSE /\ pc' = "train"
          /\ episode' = episode + 1
  /\ calls' = [calls EXCEPT !.should_stop = @ + (IF config.supervisor THEN 1 ELSE 0)]
  /\ UNCHANGED <<config, stats, stop_signal, env_id, total_steps, random_action_prob,
                 online_params, target_params, frame_buffer, memory, state,
                 action, observation, reward, done, steps, total_reward,
                 minibatch, feed, dice, raw_reward, log, start_steps,
                 synced>>

\* Outside the agent: the supervisor is asked to stop, at any moment of the
\* run.
supervisor_request_stop ==
  /\ config.supervisor
  /\ ~stop_signal
  /\ pc \notin {"finished"} \cup Failures
  /\ stop_signal' = TRUE
  /\ UNCHANGED <<config, stats, env_id, pc, episode, total_steps, random_action_prob,
                 online_params, target_params, frame_buffer, memory, state,
                 action, observation, reward, done, steps, total_reward,
                 minibatch, feed, dice, raw_reward, log, calls, start_steps,
                 synced>>

\* A slip: the exception of env.step caught inside the loop, which goes on.
train_episode_env_step_caught ==
  /\ pc = "env_step"
  /\ calls' = [calls EXCEPT !.env_step = @ + 1, !.env_error = @ + 1]
  /\ pc' = "loop"
  /\ UNCHANGED <<config, stats, stop_signal, env_id, episode, total_steps, random_action_prob,
                 online_params, target_params, frame_buffer, memory, state,
                 action, observation, reward, done, steps, total_reward,
                 minibatch, feed, dice, raw_reward, log, start_steps, synced>>

\* observation, reward, done, _ = self.env.step(action) raises: nothing
\* catches it, in train_episode or in train.
train_episode_env_step_raises ==
  /\ pc = "env_step"
  /\ calls' = [calls EXCEPT !.env_step = @ + 1, !.env_error = @ + 1]
  /\ pc' = "env_step_failed"
  /\ UNCHANGED <<config, stats, stop_signal, env_id, episode, total_steps, random_action_prob,
                 online_params, target_params, frame_buffer, memory, state,
                 action, observation, reward, done, steps, total_reward,
                 minibatch, feed, dice, raw_reward, log, start_steps, synced>>

\* self.session.run(self.network.train_op, feed_dict=feed_dict) raises:
\* nothing catches it, in _train_minibatch, train_episode or train.
train_op_raises ==
  /\ pc = "train_op"
  /\ calls' = [calls EXCEPT !.train_error = @ + 1]
  /\ pc' = "train_op_failed"
  /\ UNCHANGED <<config, stats, stop_signal, env_id, episode, total_steps, random_action_prob,
                 online_params, target_params, frame_buffer, memory, state,
                 action, observation, reward, done, steps, total_reward,
                 minibatch, feed, dice, raw_reward, log, start_steps, synced>>

Next ==
  \/ train_for
  \/ train_episode_reset
  \/ train_episode_while
  \/ train_episode_pick
  \/ train_episode_env_step
  \/ train_episode_store
  \/ _train_minibatch
  \/ train_op
  \/ train_episode_env_step_raises
  \/ train_op_raises
  \/ train_episode_increment
  \/ train_episode_return
  \/ train_target_update
  \/ train_stop_check
  \/ supervisor_request_stop

Spec == Init /\ [][Next]_vars

----------------------------------------------------------------------------
(* Properties.                                                             *)

\* Some multiple of f lies among the step counts a + 1 .. b.
Crossed(a, b, f) == \E m \in (a + 1) .. b : m % f = 0

\* C1: for every episode in which total_steps reaches or crosses a multiple
\* of target_update_freq, _update_target_network is invoked after that
\* episode, before the next episode begins.
C1_SyncAfterEveryCrossing ==
  pc = "stop_check" =>
    (Crossed(start_steps, total_steps, config.target_update_freq) => synced)

\* C2: a step that is no synchronisation (a gradient update among them)
\* leaves the target snapshot as it is, and right after a synchronisation
\* the target snapshot equals the online parameters of that moment.
C2_TargetFrozenBetweenSyncs ==
  [][/\ calls'.sync = calls.sync => target_params' = target_params
     /\ calls'.sync # calls.sync => target_params' = online_params']_vars

\* Gradient updates have left a snapshot taken during train() behind.
C2_Witness == target_params > 0 /\ online_params > target_params

\* C3: in the feed of a gradient update every transition of the terminal
\* partition has an expected value equal to its stored reward (in tenths),
\* whatever the discount and the sizes of the partitions.
C3_TerminalExpectedIsReward ==
  pc = "train_op" =>
    \A j \in 1 .. Len(minibatch[2]) :
      feed.expected_q[Len(minibatch[1]) + j] = 10 * minibatch[2][j].reward

\* A feed with both partitions, a non-zero discount and a terminal transition
\* that stores the failure penalty.
C3_Witness ==
  /\ pc = "train_op"
  /\ config.reward_discount # 0
  /\ Len(minibatch[1]) >= 1
  /\ \E j \in 1 .. Len(minibatch[2]) : minibatch[2][j].reward = -100

\* The largest q-value of state s under the parameters params.
BestQ(params, s) ==
  CHOOSE v \in 0 .. 2 :
    /\ \E a \in Actions : q_output(params, s, a) = v
    /\ \A a \in Actions : q_output(params, s, a) <= v

\* C4: in the feed of a gradient update, states, expected_q and actions have
\* the length of the two partitions together; entry i of each comes from
\* transition i of the sample, the non-terminal ones first; and the expected
\* value of a non-terminal transition is its reward plus the discount times
\* the largest q-value of its next_state under the target snapshot.
C4_FeedAligned ==
  pc = "train_op" =>
    LET nt == minibatch[1]
        t  == minibatch[2]
        all == nt \o t
        n  == Len(nt) + Len(t)
    IN  /\ Len(feed.states) = n
        /\ Len(feed.expected_q) = n
        /\ Len(feed.actions) = n
        /\ \A i \in 1 .. n :
             /\ all[i].done = (i > Len(nt))
             /\ \E m \in 1 .. Len(memory) : memory[m] = all[i]
             /\ feed.states[i] = all[i].state
             /\ \A a \in Actions : feed.actions[i][a] = 1 <=> a = all[i].action
        /\ \A k \in 1 .. Len(nt) :
             feed.expected_q[k] =
               10 * nt[k].reward
                 + config.reward_discount * BestQ(target_params, nt[k].next_state)

\* A feed with one transition of each kind, the target snapshot giving the
\* non-terminal one a non-zero bootstrap term.
C4_Witness ==
  /\ pc = "train_op"
  /\ Len(minibatch[1]) = 1
  /\ Len(minibatch[2]) = 1
  /\ feed.expected_q[1] > 10 * minibatch[1][1].reward

\* The configurations of a probability schedule: a floor that is no
\* probability below zero and not above the initial value, and a decay rate
\* that is not negative.
ValidSchedule ==
  /\ 0 <= config.min_random_action_prob
  /\ config.min_random_action_prob <= config.init_random_action_prob
  /\ 0 <= config.random_action_prob_decay

\* C5 as claimed: for any initial probability, floor and decay rate, an
\* action selection never raises random_action_prob and leaves it at or above
\* the floor and at or above zero.
C5_AnyScheduleMonotone ==
  [][pc = "pick" =>
       /\ random_action_prob' <= random_action_prob
       /\ random_action_prob' >= config.min_random_action_prob
       /\ random_action_prob' >= 0]_vars

\* C5, amended: for any schedule with 0 <= floor <= initial value and a decay
\* rate >= 0, random_action_prob never rises from one step to the next and is
\* always at or above the floor and at or above zero.
C5_ValidScheduleMonotone ==
  /\ [](ValidSchedule =>
          /\ random_action_prob >= config.min_random_action_prob
          /\ random_action_prob >= 0)
  /\ [][ValidSchedule => random_action_prob' <= random_action_prob]_vars

\* A valid schedule that has been clamped at a floor above zero.
C5_Witness ==
  /\ ValidSchedule
  /\ calls.pick >= 2
  /\ config.min_random_action_prob >= 1
  /\ config.init_random_action_prob - config.random_action_prob_decay
       < config.min_random_action_prob
  /\ config.min_random_action_prob < config.init_random_action_prob
  /\ random_action_prob = config.min_random_action_prob

\* The schedule after k decays.
RECURSIVE DecayedTimes(_)
DecayedTimes(k) ==
  IF k = 0 THEN config.init_random_action_prob
  ELSE decay(DecayedTimes(k - 1), config.min_random_action_prob,
             config.random_action_prob_decay)

\* C6: every _pick_action call decays once, and compares the draw with the
\* decayed probability, on either branch; one call precedes each environment
\* step, so after k environment steps the schedule has advanced k times.
C6_DecayOncePerPick ==
  /\ pc = "env_step" =>
       /\ dice.prob = random_action_prob
       /\ dice.random = (dice.roll < random_action_prob)
  /\ calls.pick = calls.env_step + (IF pc = "env_step" THEN 1 ELSE 0)
  /\ random_action_prob = DecayedTimes(calls.pick)

\* The greedy branch was taken on a later call, the schedule having moved.
C6_Witness ==
  /\ pc = "env_step"
  /\ calls.env_step >= 2
  /\ ~dice.random
  /\ random_action_prob < config.init_random_action_prob
  /\ random_action_prob > 0

\* The operations logged since the last action selection.
RECURSIVE CurrentStep(_)
CurrentStep(l) ==
  IF l = <<>> THEN <<>>
  ELSE IF Last(l) = "select" THEN <<"select">>
  ELSE Append(CurrentStep(SubSeq(l, 1, Len(l) - 1)), Last(l))

\* C7: a step issues a gradient update exactly when the store, with the
\* step's transition added, holds at least minibatch_size transitions; it
\* then issues one; and below minibatch_size nothing is sampled and the
\* target network is not evaluated.
C7_TrainIffEnoughTransitions ==
  /\ pc = "train_op" => ReplayMemory_size(memory) >= config.minibatch_size
  /\ pc = "increment" =>
       LET cur == CurrentStep(log)
       IN  /\ Count(cur, "store") = 1
           /\ Count(cur, "train_op") =
                (IF Len(memory) >= config.minibatch_size THEN 1 ELSE 0)
           /\ Len(memory) < config.minibatch_size =>
                Count(cur, "sample") = 0 /\ Count(cur, "target_eval") = 0

\* The first step whose occupancy reached a minibatch_size of 2: the step
\* before it trained nothing.
C7_Witness ==
  /\ pc = "increment"
  /\ config.minibatch_size = 2
  /\ calls.add = 2
  /\ calls.train_op = 1
  /\ Count(CurrentStep(log), "train_op") = 1

\* The operations that may follow operation op in an episode.
Following(op) ==
  CASE op = "reset"       -> {"select"}
    [] op = "select"      -> {"env_step"}
    [] op = "env_step"    -> {"store"}
    [] op = "store"       -> {"sample", "increment"}
    [] op = "sample"      -> {"target_eval"}
    [] op = "target_eval" -> {"train_op"}
    [] op = "train_op"    -> {"increment"}
    [] op = "increment"   -> {"select"}

\* C8: the operations of an episode come in the order select, step the
\* environment, store, maybe train, increment, step after step; and when
\* an action is selected no gradient update is in flight: the update of the
\* step before is complete.
C8_StepOrder ==
  /\ \A i \in 1 .. Len(log) :
       log[i] \in Following(IF i = 1 THEN "reset" ELSE log[i - 1])
  /\ pc = "pick" =>
       /\ feed = NoFeed
       /\ online_params = calls.train_op
       /\ log = <<>> \/ Last(log) = "increment"
  /\ total_steps = start_steps + Count(log, "increment")

\* An action was selected in the step after a gradient update.
C8_Witness ==
  /\ pc = "env_step"
  /\ steps >= 1
  /\ Count(log, "train_op") >= 1

\* C9: the reward stored is the failure penalty when the environment
\* reported done and its id has an entry in FAILURE_PENALTY, and the raw
\* reward of the step in every other case.
C9_StoredReward ==
  pc = "minibatch" =>
    /\ Last(memory).done = done
    /\ Last(memory).reward =
         (IF done /\ env_id \in DOMAIN FAILURE_PENALTY
          THEN FAILURE_PENALTY[env_id]
          ELSE raw_reward)

\* A done step of CartPole-v0 stored the penalty in place of a reward of 1.
C9_Witness ==
  /\ pc = "minibatch"
  /\ done
  /\ env_id = "CartPole-v0"
  /\ raw_reward = 1
  /\ Last(memory).reward = -100

\* What holds of an episode's steps at every moment.
C10_Bounded ==
  /\ pc = "env_step" => ~done /\ steps < config.max_steps
  /\ Count(log, "env_step") <= config.max_steps
  /\ pc = "return" =>
       /\ steps = Count(log, "env_step")
       /\ done \/ steps = config.max_steps

\* train_episode is running.
InEpisode ==
  pc \in {"reset", "loop", "pick", "env_step", "store", "minibatch",
          "train_op", "increment"}

\* How far train_episode is from its return: the steps the cap still allows,
\* then the place within the step.
Rank ==
  CASE pc = "reset"     -> 8 * (config.max_steps + 1)
    [] pc = "loop"      -> 8 * (config.max_steps - steps) + 7
    [] pc = "pick"      -> 8 * (config.max_steps - steps) + 6
    [] pc = "env_step"  -> 8 * (config.max_steps - steps) + 5
    [] pc = "store"     -> 8 * (config.max_steps - steps) + 4
    [] pc = "minibatch" -> 8 * (config.max_steps - steps) + 3
    [] pc = "train_op"  -> 8 * (config.max_steps - steps) + 2
    [] pc = "increment" -> 8 * (config.max_steps - steps) + 1
    [] OTHER            -> 0

\* C10: train_episode terminates: every step it takes (a step that moves
\* its place, which a request to the supervisor does not) brings it nearer to
\* its return or ends it with an exception, by a measure that is never negative, and the one step that
\* draws from a set, the sampling of a minibatch, always has a draw to make;
\* it takes no environment step after a done or once steps has reached
\* max_steps, so at most max_steps of them; and the step count it returns is
\* the number of environment steps taken.
C10_EpisodeTerminates ==
  /\ [](/\ C10_Bounded
        /\ Rank >= 0
        /\ (pc = "minibatch"
              /\ ~skips_training(ReplayMemory_size(memory), config.minibatch_size))
             => SampleIndices(memory, config.minibatch_size) # {})
  /\ [][InEpisode /\ pc' # pc =>
         (InEpisode' \/ pc' \in {"return"} \cup Failures) /\ Rank' < Rank]_vars

\* An episode ended by done before the step cap.
C10_Witness ==
  /\ pc = "return"
  /\ done
  /\ steps >= 1
  /\ steps < config.max_steps


\* train() returned through the break of the stop check.
Stopped == pc = "finished" /\ calls.should_stop = episode + 1

\* The stop check acts as the code's break does, and nothing else asks the
\* supervisor.
C11_CheckAtBoundary ==
  /\ [](config.supervisor =>
          calls.should_stop = episode + (IF Stopped THEN 1 ELSE 0))
  /\ [](stop_signal /\ pc = "return" => done \/ steps = config.max_steps)
  /\ [][calls'.should_stop # calls.should_stop =>
          /\ pc = "stop_check"
          /\ calls'.should_stop = calls.should_stop + 1
          /\ stop_signal => pc' = "finished" /\ episode' = episode
          /\ ~stop_signal => pc' = "train" /\ episode' = episode + 1]_vars
  /\ [][pc = "finished" => pc' = "finished" /\ calls' = calls]_vars

\* C11 as stated: the stop signal is asked for once per episode, after the
\* episode; a stop seen there ends train() with no further episode; a stop
\* raised during an episode does not shorten it; and a stopped train() has
\* run fewer than num_episodes episodes.
C11_StopRunsFewerEpisodes ==
  Stopped => episode + 1 < config.num_episodes

\* C11: the stop signal is asked for once per episode, after the episode; a
\* stop seen there ends train() normally with no further episode started; a
\* stop raised during an episode does not shorten it: the episode still ends
\* on done or on the step cap; a stopped train() has run at most
\* num_episodes episodes.
C11_StopAtEpisodeBoundary ==
  /\ C11_CheckAtBoundary
  /\ [](Stopped => episode + 1 <= config.num_episodes)

\* A stop raised during an episode that ran to the step cap, then stopped
\* train() before its last episode.
C11_Witness ==
  /\ Stopped
  /\ episode + 1 < config.num_episodes
  /\ ~done
  /\ steps = config.max_steps
  /\ steps >= 2

\* A state is exposed: train_episode is past its reset.
StateExposed ==
  pc \in {"loop", "pick", "env_step", "store", "minibatch", "train_op",
          "increment", "return"}

\* C12: every state of an episode, the one at its start included, is made
\* only of observations of that episode, never of a frame of an earlier
\* episode, whatever frames_per_state is.
C12_StateOfCurrentEpisode ==
  StateExposed => \A i \in DOMAIN state : state[i][1] = episode

\* The target network has just been evaluated for a minibatch.
TargetEvaluated == pc = "train_op" /\ Last(log) = "target_eval"

\* C13: the target snapshot is never undefined: construction completes one
\* _update_target_network, so every evaluation with the target parameters
\* reads a snapshot written by a sync that completed before it, a value the
\* online parameters had then.
C13_TargetDefined ==
  /\ target_params # Undefined
  /\ calls.sync >= 1
  /\ TargetEvaluated =>
       /\ target_params \in 0 .. online_params
       /\ \A j \in DOMAIN minibatch[1] :
            feed.expected_q[j] =
              expected_q_value(minibatch[1][j].reward, config.reward_discount,
                               BestQ(target_params, minibatch[1][j].next_state))

\* The first minibatch of a run: the target is evaluated when only the
\* construction has synchronised it.
C13_Witness ==
  /\ TargetEvaluated
  /\ calls.sync = 1
  /\ calls.train_op = 0
  /\ Len(minibatch[1]) >= 1

\* The episode and the step at which transition t was added, read from the
\* observation that closes it.
AddedAt(t) == <<Last(t.next_state)[1], Last(t.next_state)[2]>>

\* Transition u is the one added right after transition t: the next step of
\* the same episode, or the first step of the next episode when t closed its
\* episode.
AddedNext(t, u) ==
  \/ /\ AddedAt(u)[1] = AddedAt(t)[1]
     /\ AddedAt(u)[2] = AddedAt(t)[2] + 1
  \/ /\ AddedAt(u)[1] = AddedAt(t)[1] + 1
     /\ AddedAt(u)[2] = 1
     /\ t.done \/ AddedAt(t)[2] = config.max_steps

\* C14: after k adds a store of capacity C holds exactly the min(k, C) most
\* recently added transitions, oldest first: it holds min(k, C) of them, each
\* added right after the one before it, the last being the latest add; an
\* add to a full store evicts the oldest and keeps the others; nothing else
\* changes the store.
C14_MostRecentKept ==
  /\ [](/\ Len(memory) = (IF calls.add < config.capacity
                          THEN calls.add ELSE config.capacity)
        /\ \A i \in 1 .. (Len(memory) - 1) : AddedNext(memory[i], memory[i + 1]))
  /\ [][IF calls'.add = calls.add + 1
        THEN /\ AddedAt(Last(memory')) = <<episode, steps + 1>>
             /\ Last(memory').state = state
             /\ IF Len(memory) < config.capacity
                THEN SubSeq(memory', 1, Len(memory)) = memory
                ELSE SubSeq(memory', 1, Len(memory) - 1) = Tail(memory)
        ELSE memory' = memory /\ calls'.add = calls.add]_vars

\* Two adds beyond the capacity of a store that holds more than one
\* transition.
C14_Witness ==
  /\ calls.add >= config.capacity + 2
  /\ config.capacity >= 2
  /\ Len(memory) = config.capacity

\* The feed of a minibatch without non-terminal transitions: one entry per
\* sampled transition, each expected value the stored reward (in tenths).
RewardOnlyFeed(mb, fd) ==
  /\ Len(mb[2]) = config.minibatch_size
  /\ Len(fd.states) = Len(mb[2])
  /\ Len(fd.expected_q) = Len(mb[2])
  /\ \A j \in DOMAIN mb[2] : fd.expected_q[j] = 10 * mb[2][j].reward

\* C15: when the sampled minibatch has no non-terminal transition,
\* _train_minibatch still evaluates the target network, on a batch of length
\* zero, does not fail, and goes on to the gradient update with a feed whose
\* every expected value is the stored reward.
C15_EmptyNonTerminal ==
  /\ [][log' # log /\ pc = "minibatch" /\ minibatch'[1] = <<>> =>
          /\ Len(_predict_q_values(ReplayMemory_get_next_states(minibatch'[1]), TRUE)) = 0
          /\ Last(log') = "target_eval"
          /\ pc' = "train_op"
          /\ RewardOnlyFeed(minibatch', feed')]_vars
  /\ [](pc = "train_op" /\ minibatch[1] = <<>> => RewardOnlyFeed(minibatch, feed))

\* A minibatch of terminal transitions only, ready for the gradient update,
\* one of its rewards being the failure penalty.
C15_Witness ==
  /\ pc = "train_op"
  /\ minibatch[1] = <<>>
  /\ Len(minibatch[2]) >= 2
  /\ \E j \in DOMAIN minibatch[2] : minibatch[2][j].reward = -100

\* An action has just been picked on the greedy branch.
GreedyPicked == pc = "env_step" /\ ~dice.random

\* C16: on the greedy branch _pick_action evaluates the network's own
\* parameters, never the target snapshot, on the current state alone and
\* returns the index of the largest q-value, the lowest such index when
\* several are largest.
C16_GreedyIsOnlineArgmax ==
  GreedyPicked =>
    /\ action \in Actions
    /\ q_output(online_params, state, action) = BestQ(online_params, state)
    /\ \A b \in Actions :
         q_output(online_params, state, b) = BestQ(online_params, state)
           => action <= b

\* A greedy pick on a tie, made while the target snapshot differs from the
\* network's parameters.
C16_Witness ==
  /\ GreedyPicked
  /\ online_params # target_params
  /\ \A b \in Actions : q_output(online_params, state, b) = BestQ(online_params, state)

\* C17: a failure of the environment step or of the gradient update leaves
\* train_episode and train as it is, at once and without a retry: the failed
\* environment step adds no transition and counts no step, the failed update
\* writes no parameters, and after either nothing more happens: no
\* environment step, no insertion, no gradient update, no target sync.
C17_FailurePropagates ==
  /\ [][calls'.env_error # calls.env_error =>
          /\ pc = "env_step" /\ pc' = "env_step_failed"
          /\ calls'.env_error = 1
          /\ memory' = memory
          /\ total_steps' = total_steps /\ steps' = steps]_vars
  /\ [][calls'.train_error # calls.train_error =>
          /\ pc = "train_op" /\ pc' = "train_op_failed"
          /\ calls'.train_error = 1
          /\ online_params' = online_params
          /\ total_steps' = total_steps /\ steps' = steps]_vars
  /\ [][(pc \in Failures) => UNCHANGED vars]_vars
  /\ [](calls.env_error + calls.train_error >= 1 <=>
          pc \in {"env_step_failed", "train_op_failed"})
  /\ [](pc = "env_step_failed" =>
          /\ calls.add = calls.env_step - 1
          /\ calls.add = total_steps
          /\ Count(log, "env_step") = steps)

\* A failed environment step in the second step of an episode, after a
\* gradient update.
C17_Witness ==
  /\ pc = "env_step_failed"
  /\ steps >= 1
  /\ calls.train_op >= 1
  /\ Len(memory) >= 1

\* C18: the network's own parameters are written by the gradient update and
\* by nothing else, the target snapshot by _update_target_network and by
\* nothing else: picking an action, evaluating the target network, stepping
\* the environment and storing leave both as they are.  So no step of
\* train_episode changes the target snapshot, and every minibatch of an
\* episode is bootstrapped from the snapshot the episode began with.
C18_ParameterFrame ==
  [][/\ online_params' # online_params =>
          /\ pc = "train_op" /\ pc' = "increment"
          /\ calls'.train_op = calls.train_op + 1
     /\ target_params' # target_params =>
          /\ pc = "target_update"
          /\ calls'.sync = calls.sync + 1
     /\ pc \in {"pick", "env_step", "store", "minibatch"} =>
          online_params' = online_params /\ target_params' = target_params
     /\ InEpisode => target_params' = target_params
     /\ InEpisode /\ pc' = "train_op" =>
          \A j \in DOMAIN minibatch'[1] :
            feed'.expected_q[j] =
              expected_q_value(minibatch'[1][j].reward, config.reward_discount,
                               BestQ(target_params, minibatch'[1][j].next_state))]_vars

\* The second minibatch of an episode is ready, the first gradient update
\* having moved the network's parameters away from the snapshot.
C18_Witness ==
  /\ pc = "train_op"
  /\ steps >= 1
  /\ Count(log, "train_op") >= 1
  /\ online_params > target_params
  /\ Len(minibatch[1]) >= 1

\* train_episode is at the head of a step, or in it before the transition is
\* stored.
BeforeStore == pc \in {"loop", "pick", "env_step", "store"}

\* C19: within an episode the stored transitions form a chain: the state of
\* the first is the state train_episode took right after the reset, the
\* state of each later one is the next_state of the transition stored on the
\* step before; the stored action is the one passed to the environment on
\* that step, the stored done the one the environment returned, and the
\* stored next_state ends with the observation it returned.
C19_TransitionChain ==
  /\ [](BeforeStore /\ steps = 0 =>
          /\ state = FrameBuffer_get_state(frame_buffer)
          /\ Last(state) = _get_frame_resizer(env_id, reset_observation(episode)))
  /\ [](BeforeStore /\ steps >= 1 =>
          /\ state = Last(memory).next_state
          /\ pc # "loop" => ~Last(memory).done)
  /\ [][pc = "env_step" => state' = state /\ action' = action]_vars
  /\ [][calls'.add # calls.add =>
          /\ pc = "store"
          /\ Last(memory').state = state
          /\ Last(memory').action = action
          /\ Last(memory').done = done
          /\ Last(memory').next_state = state'
          /\ Last(state') = _get_frame_resizer(env_id, observation)
          /\ observation = step_observation(episode, steps + 1)]_vars

\* The store holds two transitions of one episode, the second starting where
\* the first ended.
C19_Witness ==
  /\ pc = "minibatch"
  /\ steps >= 1
  /\ Len(memory) >= 2
  /\ memory[Len(memory)].state = memory[Len(memory) - 1].next_state
  /\ memory[Len(memory)].state # memory[Len(memory) - 1].state

\* C20: the reward train_episode returns, which train logs, is the sum of
\* the rewards the environment returned in the episode: it starts at 0, each
\* environment step adds the reward it returned, and nothing else changes
\* it; the failure penalty that replaces the reward in the stored transition
\* of a done step is not in it.
C20_RawRewardTotal ==
  /\ [][/\ pc = "reset" /\ pc' = "loop" => total_reward' = 0
        /\ pc = "env_step" /\ pc' = "store" =>
             total_reward' = total_reward + raw_reward'
        /\ pc \notin {"reset", "env_step"} => total_reward' = total_reward
        /\ pc = "store" /\ pc' = "minibatch" =>
             /\ Last(memory').reward = punish(env_id, raw_reward, done)
             /\ raw_reward' = raw_reward
        /\ pc = "return" /\ pc' = "target_update" => stats' = <<total_reward, steps>>
        /\ stats' # stats => pc \in {"return", "train"}]_vars
  /\ [](StateExposed => total_reward \in 0 .. Count(log, "env_step"))
  /\ [](pc \in {"target_update", "stop_check"} => stats = <<total_reward, steps>>)

\* An episode ended by a done step whose stored reward is the penalty, logged
\* with the rewards of its two steps.
C20_Witness ==
  /\ pc = "target_update"
  /\ done
  /\ Last(memory).reward = -100
  /\ stats = <<2, 2>>

============================================================================
